---- MODULE Spec2Model ----
(***************************************************************************)
(* Model of the active-learning notebook                                   *)
(* review_classification_with_active_learning_.ipynb: the data split cell  *)
(* and train_active_learning_models.                                       *)
(***************************************************************************)
EXTENDS Integers, Sequences, FiniteSets, TLC

VARIABLES
    pc,               \* position in the notebook / in train_active_learning_models
    labels,           \* the corpus: labels[i] is the label of review i
    num_iterations,   \* parameter of train_active_learning_models
    sampling_size,    \* parameter of train_active_learning_models
    train_dataset,    \* sequences of review ids
    val_dataset,
    test_dataset,
    pool_negatives,
    pool_positives,
    model,            \* the object the name `model` is bound to
    checkpoint,       \* the ModelCheckpoint callback and the file AL_Model.h5
    early_stopping,   \* the EarlyStopping callback of the running fit
    epoch,            \* epochs completed by the running fit
    iteration,        \* loop variable of `for iteration in range(num_iterations)`
    false_negatives,  \* results of the last model.evaluate(test_dataset)
    false_positives,
    n_zeros,          \* int(sample_ratio_zeros * sampling_size) of the last round
    n_ones,           \* int(sample_ratio_ones * sampling_size) of the last round
    min_val_loss,     \* minimum of the accumulated val_losses list
    fits,             \* number of model.fit calls started
    loads,            \* number of keras.models.load_model calls
    history,          \* lowest val_loss in the History of the running / last fit
    short,            \* some take() returned fewer examples than it was asked for
    fit_dataset       \* the train_dataset the last model.fit call was given

vars == <<pc, labels, num_iterations, sampling_size, train_dataset, val_dataset,
          test_dataset, pool_negatives, pool_positives, model, checkpoint,
          early_stopping, epoch, iteration, false_negatives, false_positives,
          n_zeros, n_ones, min_val_loss, fits, loads, history, short,
          fit_dataset>>

----------------------------------------------------------------------------
(* Bounds of the model.                                                    *)

MaxPool == 3         \* largest initial pool of one class
MaxIter == 2         \* largest num_iterations
MaxSampling == 3     \* largest sampling_size in a whole run
MaxLoss == 2         \* validation losses are drawn from 1..MaxLoss
MaxCount == 15       \* largest fn / fp when the sample counts are checked alone
MaxSize == 22        \* largest sampling_size when the sample counts are checked alone
LongMaxLoss == 5     \* validation losses 1..LongMaxLoss when termination is checked

(* Scaled-down split sizes (2500, 2500, 7500 in the notebook).             *)
val_split == 1
test_split == 2
train_split == 2

(* Program constants.                                                      *)
epochs == 20
patience == 4
MantissaBits == 53
Inf == 1000000       \* np.Inf, the initial `best` of both callbacks
NoFile == 0          \* AL_Model.h5 does not exist yet

----------------------------------------------------------------------------
(* IEEE-754 binary64 arithmetic on positive values, as Python's float      *)
(* division, float multiplication and int() perform it.  A float is        *)
(* [bits, exp]: bits is the significand, most significant bit first, and   *)
(* the value is (bits read as a binary integer) * 2^exp.                   *)

\* F applied to the value of x, with x evaluated once
Once(F(_), x) == CHOOSE r \in {F(v) : v \in {x}} : TRUE

RECURSIVE Pow2(_)
Pow2(n) == IF n = 0 THEN 1 ELSE 2 * Pow2(n - 1)

\* 2^e mod m, by repeated squaring
RECURSIVE Pow2Mod(_, _)
Pow2Mod(e, m) ==
    IF e = 0 THEN 1 % m
    ELSE Once(LAMBDA h : (((h * h) % m) * (IF e % 2 = 1 THEN 2 ELSE 1)) % m,
              Pow2Mod(e \div 2, m))

LimbBits == 14

\* the bits read as a binary integer, LimbBits bits at a time
RECURSIVE BitsToInt(_)
BitsToInt(bits) ==
    Once(LAMBDA b :
        IF b = <<>> THEN 0
        ELSE 2 * BitsToInt(SubSeq(b, 1, Len(b) - 1)) + b[Len(b)],
        bits)

\* the w low bits of n, most significant first
Bits(n, w) == Once(LAMBDA m : [i \in 1..w |-> (m \div Pow2(w - i)) % 2], n)

StripZeros(bits) ==
    Once(LAMBDA b :
        IF \A i \in 1..Len(b) : b[i] = 0 THEN <<0>>
        ELSE LET k == CHOOSE i \in 1..Len(b) :
                         b[i] = 1 /\ \A j \in 1..(i - 1) : b[j] = 0
             IN  SubSeq(b, k, Len(b)),
        bits)

\* bits + 1, one bit longer when every bit was 1
Increment(bits) ==
    Once(LAMBDA b :
        IF \A i \in 1..Len(b) : b[i] = 1
        THEN <<1>> \o [i \in 1..Len(b) |-> 0]
        ELSE LET z == CHOOSE i \in 1..Len(b) :
                         b[i] = 0 /\ \A j \in (i + 1)..Len(b) : b[j] = 1
             IN  [i \in 1..Len(b) |->
                     IF i < z THEN b[i] ELSE IF i = z THEN 1 ELSE 0],
        bits)

\* round-half-to-even of the significand `bits` to MantissaBits bits;
\* `sticky` says that non-zero digits follow the ones in `bits`
RoundToNearestEven(bits, exp, sticky) ==
    Once(LAMBDA b :
        IF Len(b) <= MantissaBits THEN [bits |-> b, exp |-> exp]
        ELSE LET kept   == SubSeq(b, 1, MantissaBits)
                 tail   == SubSeq(b, MantissaBits + 1, Len(b))
                 rest   == \E i \in 2..Len(tail) : tail[i] = 1
                 up     == tail[1] = 1 /\ (rest \/ sticky \/ kept[MantissaBits] = 1)
                 r      == IF up THEN Increment(kept) ELSE kept
             IN  Once(LAMBDA m :
                     IF Len(m) > MantissaBits
                     THEN [bits |-> SubSeq(m, 1, MantissaBits),
                           exp  |-> exp + Len(tail) + 1]
                     ELSE [bits |-> m, exp |-> exp + Len(tail)],
                     r),
        bits)

RECURSIVE ShiftUp(_, _)
ShiftUp(a, b) == IF a >= b THEN 0 ELSE 1 + ShiftUp(2 * a, b)

RECURSIVE ShiftDown(_, _)
ShiftDown(a, b) == IF a < 2 * b THEN 0 ELSE 1 + ShiftDown(a, 2 * b)

\* the first n quotient bits of r / b by long division, b <= r < 2 * b, and
\* what is left: before bit i + 1 the remainder is (r * 2^(i-1)) mod b
LongDiv(r, b, n) ==
    LET rem(i) == (r * Pow2Mod(i - 1, b)) % b
    IN  [bits |-> [i \in 1..n |->
                      IF i = 1 THEN 1
                      ELSE IF 2 * rem(i - 1) >= b THEN 1 ELSE 0],
         rem  |-> rem(n)]

Zero == [bits |-> <<0>>, exp |-> 0]

\* a / b for integers a >= 0, b > 0, correctly rounded
FloatDiv(a, b) ==
    IF a = 0 THEN Zero ELSE
    LET up == ShiftUp(a, b)
        dn == ShiftDown(a, b)
        q  == LongDiv(a * Pow2(up), b * Pow2(dn), MantissaBits + 1)
    IN  RoundToNearestEven(q.bits, dn - up - MantissaBits, q.rem # 0)

\* the significand as limbs of LimbBits bits, most significant first
ToLimbs(bits) ==
    LET n      == (Len(bits) + LimbBits - 1) \div LimbBits
        padded == [i \in 1..(n * LimbBits - Len(bits)) |-> 0] \o bits
    IN  Once(LAMBDA p :
            [k \in 1..(Len(p) \div LimbBits) |->
                BitsToInt(SubSeq(p, (k - 1) * LimbBits + 1, k * LimbBits))],
            padded)

\* limbs * s, from the least significant limb with a carry
RECURSIVE MulLimbs(_, _, _)
MulLimbs(limbs, s, carry) ==
    IF limbs = <<>> THEN Bits(carry, 2 * LimbBits)
    ELSE Once(LAMBDA t :
                  MulLimbs(SubSeq(limbs, 1, Len(limbs) - 1), s,
                           t \div Pow2(LimbBits))
                  \o Bits(t % Pow2(LimbBits), LimbBits),
              limbs[Len(limbs)] * s + carry)

\* bits * s as a significand without leading zeros
MulBits(bits, s) ==
    Once(LAMBDA limbs : StripZeros(MulLimbs(limbs, s, 0)), ToLimbs(bits))

\* x * s for a float x and an integer s >= 0, correctly rounded
FloatMulInt(x, s) ==
    Once(LAMBDA f : RoundToNearestEven(MulBits(f.bits, s), f.exp, FALSE), x)

\* int(x): truncation toward zero
FloatToInt(x) ==
    Once(LAMBDA f :
        IF f.exp >= 0 THEN BitsToInt(f.bits) * Pow2(f.exp)
        ELSE IF 0 - f.exp >= Len(f.bits) THEN 0
        ELSE BitsToInt(SubSeq(f.bits, 1, Len(f.bits) + f.exp)),
        x)

\* the literal 0.5
Half == [bits |-> <<1>>, exp |-> 0 - 1]

----------------------------------------------------------------------------
(* Helpers on sequences.                                                   *)

Min(a, b) == IF a <= b THEN a ELSE b

Range(s) == {s[i] : i \in 1..Len(s)}

\* x[labels == c]: the ids of the reviews with label c, in corpus order
Mask(lab, c) == SelectSeq([i \in 1..Len(lab) |-> i], LAMBDA i : lab[i] = c)

\* s[a:b] with the end taken inclusively
Slice_InclusiveEnd(s, a, b) == SubSeq(s, Min(a, Len(s)) + 1, Min(b + 1, Len(s)))

\* s[a:b] with the start taken as a 1-based position
Slice_OneBasedStart(s, a, b) ==
    SubSeq(s, IF a = 0 THEN 1 ELSE Min(a, Len(s)), Min(b, Len(s)))

\* the Python slice s[a:b], which clamps both ends to the length
Slice(s, a, b) == SubSeq(s, Min(a, Len(s)) + 1, Min(b, Len(s)))

\* take that yields one element fewer than skip removes
Take_OneLess(ds, k) == SubSeq(ds, 1, Min(k, Len(ds)) - 1)

\* take that yields one element more than asked
Take_OneMore(ds, k) == SubSeq(ds, 1, Min(k + 1, Len(ds)))

\* tf.data.Dataset.take: the first k elements, all of them when fewer exist
Take(ds, k) == SubSeq(ds, 1, Min(k, Len(ds)))

\* skip that leaves the last element it should have skipped
Skip_OneLess(ds, k) ==
    IF k = 0 \/ ds = <<>> THEN ds ELSE SubSeq(ds, Min(k, Len(ds)), Len(ds))

\* skip that leaves the dataset alone when asked for more than it holds
Skip_KeepWhenShort(ds, k) ==
    IF k > Len(ds) THEN ds ELSE SubSeq(ds, k + 1, Len(ds))

\* tf.data.Dataset.skip: all but the first k elements
Skip(ds, k) == SubSeq(ds, Min(k, Len(ds)) + 1, Len(ds))

\* a corpus with p positive and n negative reviews, the classes interleaved
Corpus(p, n) ==
    [i \in 1..(p + n) |->
        IF i <= 2 * Min(p, n) THEN i % 2
        ELSE IF p > n THEN 1 ELSE 0]

----------------------------------------------------------------------------
(* The sampling ratio and the number of examples asked of each pool.       *)

\* the fallback taken only when both counts are zero
SampleRatios_BothZero(fn, fp) ==
    IF fn # 0 \/ fp # 0
    THEN [ones  |-> FloatDiv(fp, fn + fp),
          zeros |-> FloatDiv(fn, fn + fp)]
    ELSE [ones |-> Half, zeros |-> Half]

SampleRatios(fn, fp) ==
    IF fn # 0 /\ fp # 0
    THEN [ones  |-> FloatDiv(fp, fn + fp),
          zeros |-> FloatDiv(fn, fn + fp)]
    ELSE [ones |-> Half, zeros |-> Half]

SampleCount(ratio, size) == FloatToInt(FloatMulInt(ratio, size))

----------------------------------------------------------------------------
(* The data split cell.                                                    *)

Need == val_split + test_split + train_split

ClassSizes == (Need - 1)..(Need + MaxPool)

x_positives == Mask(labels, 1)
x_negatives == Mask(labels, 0)

\* number of examples of class c in a dataset
NumOf(ds, c) == Cardinality({i \in 1..Len(ds) : labels[ds[i]] = c})

NewModel == [val_loss |-> Inf, origin |-> "new"]

Init ==
    /\ pc = "split"
    /\ \E p \in ClassSizes, n \in ClassSizes : labels = Corpus(p, n)
    /\ num_iterations \in 0..MaxIter
    /\ sampling_size \in 0..MaxSampling
    /\ train_dataset = <<>> /\ val_dataset = <<>> /\ test_dataset = <<>>
    /\ pool_negatives = <<>> /\ pool_positives = <<>>
    /\ model = NewModel
    /\ checkpoint = [best |-> Inf, file |-> NoFile]
    /\ early_stopping = [best |-> Inf, wait |-> 0]
    /\ epoch = 0 /\ iteration = 0
    /\ false_negatives = 0 /\ false_positives = 0
    /\ n_zeros = 0 /\ n_ones = 0
    /\ min_val_loss = Inf /\ history = Inf
    /\ fits = 0 /\ loads = 0
    /\ short = FALSE
    /\ fit_dataset = <<>>

DataSplit ==
    /\ pc = "split"
    /\ val_dataset' = Slice(x_positives, 0, val_split)
                        \o Slice(x_negatives, 0, val_split)
    /\ test_dataset' = Slice(x_positives, val_split, val_split + test_split)
                         \o Slice(x_negatives, val_split, val_split + test_split)
    /\ train_dataset' =
           Slice(x_positives, val_split + test_split, val_split + test_split + train_split)
           \o Slice(x_negatives, val_split + test_split, val_split + test_split + train_split)
    /\ pool_positives' =
           Slice(x_positives, val_split + test_split + train_split, Len(x_positives))
    /\ pool_negatives' =
           Slice(x_negatives, val_split + test_split + train_split, Len(x_negatives))
    /\ pc' = "start"
    /\ UNCHANGED <<labels, num_iterations, sampling_size, model, checkpoint,
                   early_stopping, epoch, iteration, false_negatives,
                   false_positives, n_zeros, n_ones, min_val_loss, fits, loads,
                   history, short, fit_dataset>>

----------------------------------------------------------------------------
(* train_active_learning_models.                                           *)

\* on_train_begin of a fit call: EarlyStopping starts over, ModelCheckpoint
\* keeps its `best`
FitBegin ==
    /\ early_stopping' = [best |-> Inf, wait |-> 0]
    /\ epoch' = 0
    /\ history' = Inf
    /\ fits' = fits + 1
    /\ fit_dataset' = train_dataset

\* create_model, compile, the two callbacks and the start of the initial fit
InitialFit ==
    /\ pc = "start"
    /\ model' = NewModel
    /\ checkpoint' = [best |-> Inf, file |-> NoFile]
    /\ min_val_loss' = Inf
    /\ FitBegin
    /\ pc' = "epoch"
    /\ UNCHANGED <<labels, num_iterations, sampling_size, train_dataset,
                   val_dataset, test_dataset, pool_negatives, pool_positives,
                   iteration, false_negatives, false_positives, n_zeros, n_ones,
                   loads, short>>

\* ModelCheckpoint(save_best_only=True).on_epoch_end with val_loss = l
CheckpointEpochEnd(cp, l) ==
    IF l < cp.best THEN [best |-> l, file |-> l] ELSE cp

\* on_epoch_end that takes an equal val_loss for an improvement
EarlyStoppingEpochEnd_NonStrict(es, l) ==
    IF l <= es.best THEN [best |-> l, wait |-> 0]
    ELSE [best |-> es.best, wait |-> es.wait + 1]

\* EarlyStopping(patience=4).on_epoch_end with val_loss = l
EarlyStoppingEpochEnd(es, l) ==
    IF l < es.best THEN [best |-> l, wait |-> 0]
    ELSE [best |-> es.best, wait |-> es.wait + 1]

\* one epoch of the running fit: training moves the live parameters, the
\* validation pass yields a val_loss l in 1..MaxLoss, then the callbacks run
Epoch ==
    /\ pc = "epoch"
    /\ epoch < epochs
    /\ \E l \in 1..MaxLoss :
        /\ model' = [val_loss |-> l, origin |-> "fit"]
        /\ checkpoint' = CheckpointEpochEnd(checkpoint, l)
        /\ early_stopping' = EarlyStoppingEpochEnd(early_stopping, l)
        /\ history' = Min(history, l)
    /\ epoch' = epoch + 1
    /\ pc' = IF early_stopping'.wait >= patience \/ epoch' = epochs
             THEN "history" ELSE "epoch"
    /\ UNCHANGED <<labels, num_iterations, sampling_size, train_dataset,
                   val_dataset, test_dataset, pool_negatives, pool_positives,
                   iteration, false_negatives, false_positives, n_zeros, n_ones,
                   min_val_loss, fits, loads, short, fit_dataset>>

\* the fit returns (its epoch counter and callback state are gone) and
\* append_history runs; after the initial fit the loop starts, after a
\* retraining fit the checkpoint is loaded
AppendHistory ==
    /\ pc = "history"
    /\ min_val_loss' = Min(min_val_loss, history)
    /\ epoch' = 0
    /\ early_stopping' = [best |-> Inf, wait |-> 0]
    /\ history' = Inf
    /\ pc' = IF fits > 1 THEN "load"
             ELSE IF iteration < num_iterations THEN "evaluate" ELSE "final"
    /\ UNCHANGED <<labels, num_iterations, sampling_size, train_dataset,
                   val_dataset, test_dataset, pool_negatives, pool_positives,
                   model, checkpoint, iteration, false_negatives,
                   false_positives, n_zeros, n_ones, fits, loads, short,
                   fit_dataset>>

\* model.predict / model.evaluate on the test set
Evaluate ==
    /\ pc = "evaluate"
    /\ false_negatives' \in 0..NumOf(test_dataset, 1)
    /\ false_positives' \in 0..NumOf(test_dataset, 0)
    /\ pc' = "sample"
    /\ UNCHANGED <<labels, num_iterations, sampling_size, train_dataset,
                   val_dataset, test_dataset, pool_negatives, pool_positives,
                   model, checkpoint, early_stopping, epoch, iteration,
                   n_zeros, n_ones, min_val_loss, fits, loads, history, short,
                   fit_dataset>>

\* the ratio, the two counts, take / skip on both pools and the concatenation
Sample ==
    /\ pc = "sample"
    /\ LET ratio == SampleRatios(false_negatives, false_positives)
       IN  /\ n_zeros' = SampleCount(ratio.zeros, sampling_size)
           /\ n_ones' = SampleCount(ratio.ones, sampling_size)
    /\ LET sampled_dataset ==
               Take(pool_negatives, n_zeros') \o Take(pool_positives, n_ones')
       IN  /\ train_dataset' = train_dataset \o sampled_dataset
           /\ short' = (short \/ Len(sampled_dataset) < n_zeros' + n_ones')
    /\ pool_negatives' = Skip(pool_negatives, n_zeros')
    /\ pool_positives' = Skip(pool_positives, n_ones')
    /\ pc' = "retrain"
    /\ UNCHANGED <<labels, num_iterations, sampling_size, val_dataset,
                   test_dataset, model, checkpoint, early_stopping, epoch,
                   iteration, false_negatives, false_positives, min_val_loss,
                   fits, loads, history, fit_dataset>>

\* the loop body going from the concatenation straight to its end, without
\* compile and fit
Retrain_NoFit ==
    /\ pc = "retrain"
    /\ false_negatives' = 0 /\ false_positives' = 0
    /\ n_zeros' = 0 /\ n_ones' = 0
    /\ pc' = "load"
    /\ UNCHANGED <<labels, num_iterations, sampling_size, train_dataset,
                   val_dataset, test_dataset, pool_negatives, pool_positives,
                   model, checkpoint, early_stopping, epoch, iteration,
                   min_val_loss, fits, loads, history, short, fit_dataset>>

\* model.compile (fresh optimizer, same parameters) and the start of the fit;
\* the counts of this round are not read again before the next evaluate
\* overwrites them
Retrain ==
    /\ pc = "retrain"
    /\ FitBegin
    /\ false_negatives' = 0 /\ false_positives' = 0
    /\ n_zeros' = 0 /\ n_ones' = 0
    /\ pc' = "epoch"
    /\ UNCHANGED <<labels, num_iterations, sampling_size, train_dataset,
                   val_dataset, test_dataset, pool_negatives, pool_positives,
                   model, checkpoint, iteration, min_val_loss, loads, short>>

\* the end of the loop body without the load_model call
LoadModel_NotLoaded ==
    /\ pc = "load"
    /\ iteration' = iteration + 1
    /\ pc' = IF iteration' < num_iterations THEN "evaluate" ELSE "final"
    /\ UNCHANGED <<labels, num_iterations, sampling_size, train_dataset,
                   val_dataset, test_dataset, pool_negatives, pool_positives,
                   model, checkpoint, early_stopping, epoch, false_negatives,
                   false_positives, n_zeros, n_ones, min_val_loss, fits, loads,
                   history, short, fit_dataset>>

\* model = keras.models.load_model("AL_Model.h5"), the last statement of the
\* loop body, and the loop header; `iteration` counts the completed rounds
LoadModel ==
    /\ pc = "load"
    /\ model' = [val_loss |-> checkpoint.file, origin |-> "checkpoint"]
    /\ loads' = loads + 1
    /\ iteration' = iteration + 1
    /\ pc' = IF iteration' < num_iterations THEN "evaluate" ELSE "final"
    /\ UNCHANGED <<labels, num_iterations, sampling_size, train_dataset,
                   val_dataset, test_dataset, pool_negatives, pool_positives,
                   checkpoint, early_stopping, epoch, false_negatives,
                   false_positives, n_zeros, n_ones, min_val_loss, fits,
                   history, short, fit_dataset>>

\* plot_history, the final model.evaluate(test_dataset) and `return model`
FinalEvaluate ==
    /\ pc = "final"
    /\ pc' = "done"
    /\ UNCHANGED <<labels, num_iterations, sampling_size, train_dataset,
                   val_dataset, test_dataset, pool_negatives, pool_positives,
                   model, checkpoint, early_stopping, epoch, iteration,
                   false_negatives, false_positives, n_zeros, n_ones,
                   min_val_loss, fits, loads, history, short, fit_dataset>>

Next ==
    \/ DataSplit
    \/ InitialFit
    \/ Epoch
    \/ AppendHistory
    \/ Evaluate
    \/ Sample
    \/ Retrain
    \/ LoadModel
    \/ FinalEvaluate

Spec == Init /\ [][Next]_vars

----------------------------------------------------------------------------
(* The sample counts alone: the state right after an evaluate that gave    *)
(* any fn and fp, with empty pools, and the SAMPLE step applied to it.     *)

SampleInit ==
    /\ pc = "sample"
    /\ labels = <<>>
    /\ num_iterations = 1
    /\ sampling_size \in 0..MaxSize
    /\ train_dataset = <<>> /\ val_dataset = <<>> /\ test_dataset = <<>>
    /\ pool_negatives = <<>> /\ pool_positives = <<>>
    /\ model = [val_loss |-> 1, origin |-> "fit"]
    /\ checkpoint = [best |-> 1, file |-> 1]
    /\ early_stopping = [best |-> Inf, wait |-> 0]
    /\ epoch = 0 /\ iteration = 0
    /\ false_negatives \in 0..MaxCount
    /\ false_positives \in 0..MaxCount
    /\ n_zeros = 0 /\ n_ones = 0
    /\ min_val_loss = 1 /\ history = Inf
    /\ fits = 1 /\ loads = 0
    /\ short = FALSE
    /\ fit_dataset = <<>>

SampleNext == Sample

SampleSpec == SampleInit /\ [][SampleNext]_vars

----------------------------------------------------------------------------
(* Whole runs on one corpus with a wider range of validation losses, so    *)
(* that a fit can go on improving up to the epoch limit.  The function is  *)
(* one sequential thread: whenever it has a next step it takes it.         *)

\* one epoch of the running fit, with a val_loss l in 1..LongMaxLoss
LongEpoch ==
    /\ pc = "epoch"
    /\ epoch < epochs
    /\ \E l \in 1..LongMaxLoss :
        /\ model' = [val_loss |-> l, origin |-> "fit"]
        /\ checkpoint' = CheckpointEpochEnd(checkpoint, l)
        /\ early_stopping' = EarlyStoppingEpochEnd(early_stopping, l)
        /\ history' = Min(history, l)
    /\ epoch' = epoch + 1
    /\ pc' = IF early_stopping'.wait >= patience \/ epoch' = epochs
             THEN "history" ELSE "epoch"
    /\ UNCHANGED <<labels, num_iterations, sampling_size, train_dataset,
                   val_dataset, test_dataset, pool_negatives, pool_positives,
                   iteration, false_negatives, false_positives, n_zeros, n_ones,
                   min_val_loss, fits, loads, short, fit_dataset>>

TermInit ==
    /\ Init
    /\ labels = Corpus(Need + 1, Need + 1)
    /\ sampling_size = 2

TermNext ==
    \/ DataSplit
    \/ InitialFit
    \/ LongEpoch
    \/ AppendHistory
    \/ Evaluate
    \/ Sample
    \/ Retrain
    \/ LoadModel
    \/ FinalEvaluate

TermSpec == TermInit /\ [][TermNext]_vars /\ WF_vars(TermNext)

----------------------------------------------------------------------------
(* Properties.                                                             *)

Disjoint(a, b) == Range(a) \cap Range(b) = {}

NoRepeats(ds) == \A i, j \in 1..Len(ds) : ds[i] = ds[j] => i = j

\* the j-th review of class c in corpus order
Nth(c, j) ==
    CHOOSE i \in 1..Len(labels) :
        /\ labels[i] = c
        /\ Cardinality({h \in 1..i : labels[h] = c}) = j

ClassSize(c) == Cardinality({i \in 1..Len(labels) : labels[i] = c})

\* C1: at the end of every run, for every num_iterations >= 0, the classifier
\* that is evaluated on the test set and returned has the lowest validation
\* loss observed over all fit calls of the run.
C1_ReturnedModelIsGlobalBest ==
    pc = "done" => model.val_loss = min_val_loss

\* C2 (as stated): the checkpoint is never loaded between rounds, every
\* retraining fit starts from the live parameters of the previous fit, and
\* the checkpoint is read exactly once, after the last round.
C2_LoadedOnceAfterLastRound ==
    /\ pc = "retrain" => model.origin = "fit"
    /\ pc \notin {"final", "done"} => loads = 0
    /\ pc = "done" => loads = 1

\* C2 (amended): the checkpoint is not loaded after the initial fit, so the
\* first round evaluates and retrains the live parameters the initial fit
\* left; it is loaded at the end of every round, so it has been read once per
\* completed round, every later round starts from the loaded parameters, and
\* a finished run has read it num_iterations times.
C2_LoadedAtEndOfEveryRound ==
    /\ loads = iteration
    /\ pc \in {"evaluate", "sample", "retrain"} =>
          model.origin = IF iteration = 0 THEN "fit" ELSE "checkpoint"
    /\ pc \in {"final", "done"} =>
          /\ loads = num_iterations
          /\ model.origin = IF num_iterations = 0 THEN "fit" ELSE "checkpoint"

\* a second round about to retrain the parameters loaded from the checkpoint
C2_Witness ==
    /\ pc = "retrain" /\ iteration = 1 /\ loads = 1
    /\ model.origin = "checkpoint"
    /\ model.val_loss = 1

\* C3: with fn > 0 and fp > 0 the positive pool is asked for
\* floor(fp * sampling_size / (fp + fn)) examples and the negative pool for
\* floor(fn * sampling_size / (fp + fn)).
C3_CountsAreExactFloors ==
    (pc = "retrain" /\ false_negatives > 0 /\ false_positives > 0) =>
        /\ n_ones = (false_positives * sampling_size)
                        \div (false_positives + false_negatives)
        /\ n_zeros = (false_negatives * sampling_size)
                        \div (false_positives + false_negatives)

C5_DrawTakesTheFront ==
    /\ [][pc = "sample" =>
            LET dz == Len(pool_negatives) - Len(pool_negatives')
                base == Len(train_dataset)
            IN  /\ n_zeros' <= Len(pool_negatives) =>
                     /\ Len(pool_negatives') = Len(pool_negatives) - n_zeros'
                     /\ \A i \in 1..Len(pool_negatives') :
                           pool_negatives'[i] = pool_negatives[n_zeros' + i]
                     /\ \A i \in 1..n_zeros' :
                           train_dataset'[base + i] = pool_negatives[i]
                /\ n_ones' <= Len(pool_positives) =>
                     /\ Len(pool_positives') = Len(pool_positives) - n_ones'
                     /\ \A i \in 1..Len(pool_positives') :
                           pool_positives'[i] = pool_positives[n_ones' + i]
                     /\ \A i \in 1..n_ones' :
                           train_dataset'[base + dz + i] = pool_positives[i]
                /\ \A i \in 1..base : train_dataset'[i] = train_dataset[i]
         ]_vars
    /\ [](/\ NoRepeats(train_dataset)
          /\ Disjoint(train_dataset, pool_negatives)
          /\ Disjoint(train_dataset, pool_positives))

\* both pools gave part of what they held
C5_Witness ==
    /\ pc = "retrain"
    /\ n_zeros >= 1 /\ n_ones >= 2
    /\ pool_negatives # <<>> /\ pool_positives # <<>>

\* C6 (as stated): the SAMPLE step of every round makes train longer by
\* exactly k_pos + k_neg, the two counts computed in that round.
C6_TrainGrowsByRequestedCounts ==
    [][pc = "sample" =>
          Len(train_dataset') = Len(train_dataset) + n_ones' + n_zeros']_vars

\* C6 (amended): the SAMPLE step of every round makes train longer by
\* min(k_pos, size of the positive pool) + min(k_neg, size of the negative
\* pool), which is k_pos + k_neg when neither pool holds fewer than asked;
\* the train size never decreases.
C6_TrainGrowsByDrawnCounts ==
    /\ [][pc = "sample" =>
            Len(train_dataset') =
                Len(train_dataset) + Min(n_ones', Len(pool_positives))
                                   + Min(n_zeros', Len(pool_negatives))]_vars
    /\ [][Len(train_dataset') >= Len(train_dataset)]_vars

\* a round in which one pool gave less than asked and the other gave all
\* that was asked
C6_Witness ==
    /\ pc = "retrain" /\ short
    /\ n_ones > 0 /\ pool_positives = <<>>
    /\ n_zeros > 0 /\ pool_negatives # <<>>

\* C7: a draw that asks a pool for more than it holds returns what is left
\* and empties the pool, an empty pool stays empty, and the run still does
\* all its rounds (num_iterations + 1 fits) before it ends.
C7_ExhaustionIsNotAnError ==
    /\ [][pc = "sample" =>
            LET dz == Len(pool_negatives) - Len(pool_negatives')
                base == Len(train_dataset)
            IN  /\ n_zeros' > Len(pool_negatives) =>
                     /\ pool_negatives' = <<>>
                     /\ \A i \in 1..Len(pool_negatives) :
                           train_dataset'[base + i] = pool_negatives[i]
                /\ n_ones' > Len(pool_positives) =>
                     /\ pool_positives' = <<>>
                     /\ \A i \in 1..Len(pool_positives) :
                           train_dataset'[base + dz + i] = pool_positives[i]
                /\ pc' = "retrain"
         ]_vars
    /\ [][pc # "split" =>
            /\ pool_negatives = <<>> => pool_negatives' = <<>>
            /\ pool_positives = <<>> => pool_positives' = <<>>]_vars
    /\ [](pc = "done" =>
            /\ iteration = num_iterations
            /\ fits = num_iterations + 1)

\* a run of two rounds that ran out of examples and came to its end
C7_Witness ==
    /\ pc = "done" /\ short
    /\ num_iterations = 2
    /\ pool_negatives = <<>>

\* C8: once the split is made, no review is in more than one of train,
\* validation, test and the two pools, and validation and test never change.
C8_SplitsStayDisjoint ==
    /\ [](pc # "split" =>
            /\ Disjoint(train_dataset, val_dataset)
            /\ Disjoint(train_dataset, test_dataset)
            /\ Disjoint(train_dataset, pool_positives)
            /\ Disjoint(train_dataset, pool_negatives)
            /\ Disjoint(val_dataset, test_dataset)
            /\ Disjoint(val_dataset, pool_positives)
            /\ Disjoint(val_dataset, pool_negatives)
            /\ Disjoint(test_dataset, pool_positives)
            /\ Disjoint(test_dataset, pool_negatives)
            /\ Disjoint(pool_positives, pool_negatives))
    /\ [][pc # "split" =>
            /\ val_dataset' = val_dataset
            /\ test_dataset' = test_dataset]_vars

\* the end of a run that moved reviews of both classes and left some
C8_Witness ==
    /\ pc = "done" /\ iteration = 2
    /\ Len(train_dataset) > 2 * train_split
    /\ pool_positives # <<>>
    /\ val_dataset # <<>> /\ test_dataset # <<>>

\* C9: when both classes have at least val_split + test_split + train_split
\* reviews, the split puts, per class and in corpus order, the first
\* val_split reviews into validation, the next test_split into test, the
\* next train_split into train and the rest into the pool of the class.
C9_SplitIsOrderPreserving ==
    (pc = "start" /\ ClassSize(1) >= Need /\ ClassSize(0) >= Need) =>
        /\ Len(val_dataset) = 2 * val_split
        /\ Len(test_dataset) = 2 * test_split
        /\ Len(train_dataset) = 2 * train_split
        /\ Len(pool_positives) = ClassSize(1) - Need
        /\ Len(pool_negatives) = ClassSize(0) - Need
        /\ \A j \in 1..val_split :
              /\ val_dataset[j] = Nth(1, j)
              /\ val_dataset[val_split + j] = Nth(0, j)
        /\ \A j \in 1..test_split :
              /\ test_dataset[j] = Nth(1, val_split + j)
              /\ test_dataset[test_split + j] = Nth(0, val_split + j)
        /\ \A j \in 1..train_split :
              /\ train_dataset[j] = Nth(1, val_split + test_split + j)
              /\ train_dataset[train_split + j] = Nth(0, val_split + test_split + j)
        /\ \A j \in 1..Len(pool_positives) : pool_positives[j] = Nth(1, Need + j)
        /\ \A j \in 1..Len(pool_negatives) : pool_negatives[j] = Nth(0, Need + j)

\* a corpus with enough of both classes, split, with pools of different sizes
C9_Witness ==
    /\ pc = "start"
    /\ ClassSize(1) = Need + 2 /\ ClassSize(0) = Need + 1
    /\ Len(pool_positives) = 2 /\ Len(pool_negatives) = 1

\* C10: a corpus in which a class has fewer than val_split + test_split +
\* train_split reviews makes the split fail, so the notebook never gets past
\* the split cell with short sets.
C10_ShortClassFailsAtSetup ==
    (ClassSize(1) < Need \/ ClassSize(0) < Need) => pc = "split"

\* C11: every run terminates, after one initial fit and num_iterations
\* rounds with one fit each (num_iterations + 1 fits); a fit goes on exactly
\* while it has done fewer than 20 epochs and fewer than 4 epochs in a row
\* have failed to improve on the lowest validation loss of that fit.
C11_RunTerminates ==
    /\ <>(pc = "done")
    /\ [](pc = "done" =>
            /\ fits = num_iterations + 1
            /\ iteration = num_iterations)
    /\ [](pc \in {"evaluate", "sample", "retrain"} =>
            /\ fits = iteration + 1
            /\ iteration < num_iterations)
    /\ [](pc = "history" =>
            /\ epoch >= 1 /\ epoch <= epochs
            /\ epoch < epochs => early_stopping.wait = patience)
    /\ [][pc = "epoch" =>
            /\ epoch' = epoch + 1
            /\ early_stopping'.wait =
                  IF model'.val_loss < history THEN 0
                  ELSE early_stopping.wait + 1
            /\ pc' = "epoch" <=>
                  (epoch' < epochs /\ early_stopping'.wait < patience)
            /\ pc' # "epoch" => pc' = "history"
         ]_vars

\* the fit of the second round stopped by the epoch limit while the loss was
\* still improving
C11_Witness ==
    /\ pc = "history" /\ fits = 3 /\ num_iterations = 2
    /\ epoch = epochs
    /\ early_stopping.wait < patience

\* C12: the steps are strictly ordered.  EVALUATE is entered only from a fit
\* that has run to its end (through append_history, or the load that follows
\* it), with the train set that fit was given; its fn/fp go to the SAMPLE
\* that follows it in the same round; SAMPLE is followed by the compile and a
\* fit on the enlarged train set; at DONE the last fit was over the final
\* train set.
C12_StepsAreOrdered ==
    /\ [](pc = "history" => (epoch = epochs \/ early_stopping.wait >= patience))
    /\ [][(pc' = "evaluate" /\ pc # "evaluate") =>
            /\ pc \in {"history", "load"}
            /\ epoch' = 0
            /\ train_dataset' = train_dataset
            /\ fit_dataset' = train_dataset]_vars
    /\ [][pc = "evaluate" => (pc' = "sample" /\ iteration' = iteration)]_vars
    /\ [][pc = "sample" =>
            /\ pc' = "retrain" /\ iteration' = iteration
            /\ n_ones' = SampleCount(SampleRatios(false_negatives,
                                                  false_positives).ones,
                                     sampling_size)
            /\ n_zeros' = SampleCount(SampleRatios(false_negatives,
                                                   false_positives).zeros,
                                      sampling_size)
            /\ Len(train_dataset') >= Len(train_dataset)]_vars
    /\ [][pc = "retrain" =>
            /\ pc' = "epoch" /\ iteration' = iteration
            /\ fits' = fits + 1 /\ epoch' = 0
            /\ model' = model
            /\ train_dataset' = train_dataset
            /\ fit_dataset' = train_dataset]_vars
    /\ [][train_dataset' # train_dataset => pc \in {"split", "sample"}]_vars
    /\ [](pc \in {"epoch", "history", "load", "evaluate", "final", "done"}
            => fit_dataset = train_dataset)

\* a finished run of two rounds whose draws enlarged the train set
C12_Witness ==
    /\ pc = "done" /\ iteration = 2
    /\ Len(train_dataset) > 2 * train_split
    /\ fit_dataset = train_dataset

\* the examples the learner holds: the train set and the two pools
Held == train_dataset \o pool_positives \o pool_negatives

\* the examples of class c in the train set plus those left in c's pool
ClassHeld(c) ==
    NumOf(train_dataset, c)
        + Len(IF c = 1 THEN pool_positives ELSE pool_negatives)

\* C13: after the initial partition no step changes |train| + |positive
\* pool| + |negative pool|, nor, for either class, the number of its examples
\* in train plus in its pool; the examples held stay the same ones and none
\* is held twice, also in rounds in which a pool runs out.
C13_TransferConservesExamples ==
    /\ [][pc # "split" =>
            /\ Len(Held') = Len(Held)
            /\ \A c \in {0, 1} : ClassHeld(c)' = ClassHeld(c)
            /\ Range(Held') = Range(Held)]_vars
    /\ [](NoRepeats(Held))

\* a draw that came out short has moved examples into the train set
C13_Witness ==
    /\ pc = "retrain" /\ short
    /\ pool_positives = <<>> /\ pool_negatives = <<>>
    /\ Len(train_dataset) > 2 * train_split

\* the two exact shares ratio * sampling_size are whole numbers
SharesDivideEvenly ==
    IF false_negatives > 0 /\ false_positives > 0
    THEN /\ (false_positives * sampling_size)
                % (false_positives + false_negatives) = 0
         /\ (false_negatives * sampling_size)
                % (false_positives + false_negatives) = 0
    ELSE sampling_size % 2 = 0

\* C14: for all fn, fp, sampling_size >= 0 the two requested counts are not
\* negative and add up to sampling_size or to sampling_size - 1, and to
\* sampling_size - 1 exactly when the two shares do not divide evenly.
C14_RequestedWithinOneOfSize ==
    pc = "retrain" =>
        /\ n_ones >= 0 /\ n_zeros >= 0
        /\ n_ones + n_zeros <= sampling_size
        /\ n_ones + n_zeros >= sampling_size - 1
        /\ (n_ones + n_zeros = sampling_size - 1) <=> ~SharesDivideEvenly

====
